---- MODULE Spec2Model ----
(***************************************************************************)
(* Model of freetime.go (the second, complete program of src/freetime.go,  *)
(* lines 264-570): the Range type with split and After, nextWorkDay, and   *)
(* the part of main that seeds three workdays, folds the busy events over  *)
(* the free list and prunes short ranges.                                  *)
(*                                                                         *)
(* Time.  A time.Time is an integer number of minutes; instant 0 is a      *)
(* Sunday 00:00 local time, so the weekday of an instant is its day number *)
(* modulo 7 with Go's numbering (Sunday = 0 ... Saturday = 6).  The local  *)
(* zone has a fixed offset: a calendar day is always 24 hours.             *)
(* t.After(u) is t > u, t.Before(u) is t < u, t.Equal(u) is t = u.         *)
(***************************************************************************)
EXTENDS Integers, Sequences, FiniteSets

VARIABLES
    now,         \* main: now := time.Now()
    i,           \* main: index of the seeding loop
    busyEvents,  \* main: the events fetched so far, in fetch order
    freeRanges,  \* main: the free list
    k,           \* main: number of events the fold loop has finished
    pc,          \* position of the program
    args,        \* arguments of a single call of a Range function
    ret          \* the sequence of Ranges that call returned

vars == <<now, i, busyEvents, freeRanges, k, pc, args, ret>>

-----------------------------------------------------------------------------
(* Bounds of the model *)

\* instants of the single-call and fold specifications are 0..MaxT
MaxT == 3
\* number of calendar days the reference instant ranges over
NumDays == 7
\* most events the calendar collaborator returns over one run
MaxEvents == 2
\* most ranges and events together the fold specification starts from
MaxFold == 3

(* Program constants *)

WorkStartHour == 10
WorkEndHour == 18
Lookahead == 3
MinFreeMinutes == 30
Sunday == 0
Saturday == 6

Day == 24 * 60

-----------------------------------------------------------------------------
(* Range *)

Range(start, end) == [start |-> start, end |-> end]

Start(r) == r.start

End(r) == r.end

Duration(r) == r.end - r.start

\* split with the two remainders built from the wrong splitter instant
split_swapped(r, start, end) ==
    IF Start(r) > end \/ Start(r) = end THEN <<r>>
    ELSE IF End(r) < start \/ End(r) = start THEN <<r>>
    ELSE (IF start > Start(r) /\ start < End(r)
             THEN <<Range(Start(r), end)>> ELSE <<>>)
         \o
         (IF end > Start(r) /\ end < End(r)
             THEN <<Range(start, End(r))>> ELSE <<>>)

\* split whose second remainder starts where the splitter starts
split_keepsSplitter(r, start, end) ==
    IF Start(r) > end \/ Start(r) = end THEN <<r>>
    ELSE IF End(r) < start \/ End(r) = start THEN <<r>>
    ELSE (IF start > Start(r) /\ start < End(r)
             THEN <<Range(Start(r), start)>> ELSE <<>>)
         \o
         (IF end > Start(r) /\ end < End(r)
             THEN <<Range(start, End(r))>> ELSE <<>>)

\* split that emits the second remainder without testing end.Before(r.End())
split_noEndTest(r, start, end) ==
    IF Start(r) > end \/ Start(r) = end THEN <<r>>
    ELSE IF End(r) < start \/ End(r) = start THEN <<r>>
    ELSE (IF start > Start(r) /\ start < End(r)
             THEN <<Range(Start(r), start)>> ELSE <<>>)
         \o
         (IF end > Start(r)
             THEN <<Range(end, End(r))>> ELSE <<>>)

\* split whose no-overlap tests leave out the Equal cases
split_noEqual(r, start, end) ==
    IF Start(r) > end THEN <<r>>
    ELSE IF End(r) < start THEN <<r>>
    ELSE (IF start > Start(r) /\ start < End(r)
             THEN <<Range(Start(r), start)>> ELSE <<>>)
         \o
         (IF end > Start(r) /\ end < End(r)
             THEN <<Range(end, End(r))>> ELSE <<>>)

\* split that tests the second remainder only when there is no first one
split_elseIf(r, start, end) ==
    IF Start(r) > end \/ Start(r) = end THEN <<r>>
    ELSE IF End(r) < start \/ End(r) = start THEN <<r>>
    ELSE IF start > Start(r) /\ start < End(r)
        THEN <<Range(Start(r), start)>>
    ELSE IF end > Start(r) /\ end < End(r)
        THEN <<Range(end, End(r))>>
    ELSE <<>>

split(r, start, end) ==
    IF Start(r) > end \/ Start(r) = end THEN <<r>>
    ELSE IF End(r) < start \/ End(r) = start THEN <<r>>
    ELSE (IF start > Start(r) /\ start < End(r)
             THEN <<Range(Start(r), start)>> ELSE <<>>)
         \o
         (IF end > Start(r) /\ end < End(r)
             THEN <<Range(end, End(r))>> ELSE <<>>)

\* After without the branch for an instant after the end
After_noClamp(r, t) ==
    IF t < Start(r) THEN r
    ELSE Range(t, End(r))

After(r, t) ==
    IF t > End(r) THEN Range(End(r), End(r))
    ELSE IF t < Start(r) THEN r
    ELSE Range(t, End(r))

-----------------------------------------------------------------------------
(* nextWorkDay *)

\* time.Date(t.Year(), t.Month(), t.Day(), hour, 0, 0, 0, t.Location())
AtHour(t, hour) == (t \div Day) * Day + hour * 60

\* t.AddDate(0, 0, days)
AddDays(t, days) == t + days * Day

\* t.Weekday()
Weekday(t) == (t \div Day) % 7

\* nextWorkDay that rolls over only strictly after 18:00
nextWorkDay_strictAfter(t) ==
    LET nowAtSix == AtHour(t, WorkEndHour)
        first == IF t > nowAtSix
                    THEN AtHour(AddDays(t, 1), WorkStartHour)
                    ELSE AtHour(t, WorkStartHour)
        nextStart == IF Weekday(first) = Saturday THEN AddDays(first, 2)
                     ELSE IF Weekday(first) = Sunday THEN AddDays(first, 1)
                     ELSE first
    IN  Range(nextStart, AtHour(nextStart, WorkEndHour))

nextWorkDay(t) ==
    LET nowAtSix == AtHour(t, WorkEndHour)
        first == IF t > nowAtSix \/ t = nowAtSix
                    THEN AtHour(AddDays(t, 1), WorkStartHour)
                    ELSE AtHour(t, WorkStartHour)
        nextStart == IF Weekday(first) = Saturday THEN AddDays(first, 2)
                     ELSE IF Weekday(first) = Sunday THEN AddDays(first, 1)
                     ELSE first
    IN  Range(nextStart, AtHour(nextStart, WorkEndHour))

-----------------------------------------------------------------------------
(* Busy events.  A calendar.Event is modelled by what main reads of it:     *)
(* whether Start.DateTime is empty (an all-day event), whether its        *)
(* DateTime strings parse as RFC 3339, and the two parsed instants.        *)

TimedEvent(start, end) == [kind |-> "timed", start |-> start, end |-> end]

AllDayEvent == [kind |-> "allDay", start |-> 0, end |-> 0]

MalformedEvent == [kind |-> "malformed", start |-> 0, end |-> 0]

\* the inner loops of the fold: r.split(eventStart, eventEnd) of every range
\* of the list, appended to newRanges in list order
RECURSIVE newRanges(_, _, _)
newRanges(list, start, end) ==
    IF list = <<>> THEN <<>>
    ELSE split(Head(list), start, end) \o newRanges(Tail(list), start, end)

\* time.Parse fails inside the loop over freeRanges: log.Fatalf
ParseFails(list, event) == event.kind = "malformed" /\ list # <<>>

\* one iteration of the loop over busyEvents that does not end the program
foldEvent(list, event) ==
    IF event.kind = "allDay" THEN list
    ELSE IF event.kind = "malformed" THEN <<>>
    ELSE newRanges(list, event.start, event.end)

\* the whole loop over a list of events none of which fails to parse
RECURSIVE foldAll(_, _)
foldAll(list, events) ==
    IF events = <<>> THEN list
    ELSE foldAll(foldEvent(list, Head(events)), Tail(events))

\* the pruning loop with > in place of >=
longRanges_strict(list) == SelectSeq(list, LAMBDA r : Duration(r) > MinFreeMinutes)

\* the pruning loop
longRanges(list) == SelectSeq(list, LAMBDA r : Duration(r) >= MinFreeMinutes)

-----------------------------------------------------------------------------
(* Inputs *)

SeqsUpTo(S, n) == UNION {[1..m -> S] : m \in 0..n}

\* the Ranges with end >= start over a set of instants
RangesOver(T) == {Range(p[1], p[2]) : p \in {q \in T \X T : q[1] <= q[2]}}

\* the events of the calendar collaborator over a set of instants: an event
\* never ends before it starts
EventsOver(T) ==
    {TimedEvent(p[1], p[2]) : p \in {q \in T \X T : q[1] <= q[2]}}
        \cup {AllDayEvent, MalformedEvent}

\* times of day of now: before the workday, 30 and 29 minutes before its end,
\* and its end
NowClock == {9 * 60, 17 * 60 + 30, 17 * 60 + 31, 18 * 60}

Nows == {d * Day + m : d \in 0..(NumDays - 1), m \in NowClock}

\* times of day of the events fetched for a workday
EventClock == {9 * 60, 17 * 60 + 30, 17 * 60 + 31, 19 * 60}

\* what Events.List may return for the window of nextDay
Fetched(nextDay, room) ==
    SeqsUpTo(EventsOver({AtHour(Start(nextDay), 0) + m : m \in EventClock}), room)

NoCall == [fn |-> "none"]

-----------------------------------------------------------------------------
(* main *)

Init ==
    /\ now \in Nows
    /\ i = 0
    /\ busyEvents = <<>>
    /\ freeRanges = <<>>
    /\ k = 0
    /\ pc = "seed"
    /\ args = NoCall
    /\ ret = <<>>

\* one iteration of the seeding loop: the workday, clipped to now, is appended
\* and the events of its window are fetched from every busy calendar
SeedDay ==
    /\ pc = "seed"
    /\ i < Lookahead
    /\ LET nextDay == After(nextWorkDay(AddDays(now, i)), now)
       IN  /\ freeRanges' = Append(freeRanges, nextDay)
           /\ \E events \in Fetched(nextDay, MaxEvents - Len(busyEvents)) :
                 busyEvents' = busyEvents \o events
    /\ \E err \in BOOLEAN :
          IF err THEN pc' = "fatal" /\ i' = i
          ELSE /\ i' = i + 1
               /\ pc' = IF i + 1 = Lookahead THEN "fold" ELSE "seed"
    /\ UNCHANGED <<now, k, args, ret>>

\* one iteration of the loop over busyEvents
FoldEvent ==
    /\ pc = "fold"
    /\ k < Len(busyEvents)
    /\ IF ParseFails(freeRanges, busyEvents[k + 1])
          THEN pc' = "fatal" /\ UNCHANGED <<freeRanges, k>>
          ELSE /\ freeRanges' = foldEvent(freeRanges, busyEvents[k + 1])
               /\ k' = k + 1
               /\ pc' = pc
    /\ UNCHANGED <<now, i, busyEvents, args, ret>>

\* the pruning of short ranges, after the last event
Prune ==
    /\ pc = "fold"
    /\ k = Len(busyEvents)
    /\ freeRanges' = longRanges(freeRanges)
    /\ pc' = "done"
    /\ UNCHANGED <<now, i, busyEvents, k, args, ret>>

Next == SeedDay \/ FoldEvent \/ Prune

Spec == Init /\ [][Next]_vars

-----------------------------------------------------------------------------
(* The fold and the pruning from any free list that holds a range, as the   *)
(* seeded list does                                                        *)

InitFold ==
    /\ now = 0
    /\ i = Lookahead
    /\ freeRanges \in SeqsUpTo(RangesOver(0..MaxT), MaxFold) \ {<<>>}
    /\ busyEvents \in SeqsUpTo(EventsOver(0..MaxT), MaxFold - Len(freeRanges))
    /\ k = 0
    /\ pc = "fold"
    /\ args = NoCall
    /\ ret = <<>>

NextFold == FoldEvent \/ Prune

SpecFold == InitFold /\ [][NextFold]_vars

\* the run of main, and the fold and pruning from any free list
InitMainFold == Init \/ InitFold

SpecMainFold == InitMainFold /\ [][Next]_vars

-----------------------------------------------------------------------------
(* Single calls of split and After *)

InitRange ==
    /\ now = 0
    /\ i = 0
    /\ busyEvents = <<>>
    /\ freeRanges = <<>>
    /\ k = 0
    /\ pc = "call"
    /\ args \in [fn : {"range"}, r : RangesOver(0..MaxT),
                 start : 0..MaxT, end : 0..MaxT]
    /\ ret = <<>>

CallSplit ==
    /\ pc = "call"
    /\ args.fn = "range"
    /\ ret' = split(args.r, args.start, args.end)
    /\ pc' = "split"
    /\ UNCHANGED <<now, i, busyEvents, freeRanges, k, args>>

CallAfter ==
    /\ pc = "call"
    /\ args.fn = "range"
    /\ ret' = <<After(args.r, args.start)>>
    /\ pc' = "after"
    /\ UNCHANGED <<now, i, busyEvents, freeRanges, k, args>>

NextRange == CallSplit \/ CallAfter

SpecRange == InitRange /\ [][NextRange]_vars

\* single calls of split and After, and folds from any free list
InitSplitFold == InitRange \/ InitFold

NextSplitFold == CallSplit \/ CallAfter \/ FoldEvent \/ Prune

SpecSplitFold == InitSplitFold /\ [][NextSplitFold]_vars

-----------------------------------------------------------------------------
(* Single calls of nextWorkDay *)

InitWorkDay ==
    /\ now \in 0..(NumDays * Day - 1)
    /\ i = 0
    /\ busyEvents = <<>>
    /\ freeRanges = <<>>
    /\ k = 0
    /\ pc = "call"
    /\ args = [fn |-> "nextWorkDay"]
    /\ ret = <<>>

CallNextWorkDay ==
    /\ pc = "call"
    /\ args.fn = "nextWorkDay"
    /\ ret' = <<nextWorkDay(now)>>
    /\ pc' = "workday"
    /\ UNCHANGED <<now, i, busyEvents, freeRanges, k, args>>

NextWorkDay == CallNextWorkDay

SpecWorkDay == InitWorkDay /\ [][NextWorkDay]_vars

-----------------------------------------------------------------------------
(* Vocabulary of the properties.  A Range or a splitter is the half-open   *)
(* interval [start, end): it holds the instant t iff start <= t < end.     *)

Holds(r, t) == Start(r) <= t /\ t < End(r)

InSplitter(start, end, t) == start <= t /\ t < end

\* two Ranges share an instant
Overlap(p, q) ==
    /\ Start(p) < End(p)
    /\ Start(q) < End(q)
    /\ Start(p) < End(q)
    /\ Start(q) < End(p)

PairwiseDisjoint(list) ==
    \A m, n \in 1..Len(list) : m < n => ~Overlap(list[m], list[n])

Within(p, r) == Start(p) >= Start(r) /\ End(p) <= End(r)

AllWithin(list, r) == \A m \in 1..Len(list) : Within(list[m], r)

-----------------------------------------------------------------------------
(* Properties of split and After, under SpecRange *)

\* C1 as stated: for all r and ALL splitter instants start, end, the pieces of
\* r.split(start, end) are pairwise non-overlapping and each lies within r.
\* Refuted by a splitter whose end is before its start.
C1_Original ==
    pc = "split" => PairwiseDisjoint(ret) /\ AllWithin(ret, args.r)

\* C1 amended: for all r and all splitters with start <= end, the pieces of
\* r.split(start, end) are pairwise non-overlapping and each lies within r.
C1_SplitDisjoint ==
    (pc = "split" /\ args.start <= args.end)
        => PairwiseDisjoint(ret) /\ AllWithin(ret, args.r)

C1_Witness ==
    /\ pc = "split"
    /\ args.start < args.end
    /\ Len(ret) = 2
    /\ Start(ret[1]) < End(ret[1])
    /\ Start(ret[2]) < End(ret[2])

\* C2: the part of r that the pieces of r.split(start, end) do not cover is
\* exactly r intersected with [start, end): every instant of r outside the
\* splitter is in some piece, no instant of the splitter is in any piece, and a
\* splitter strictly inside r yields exactly [r.start, start), [end, r.end).
C2_SplitCoverage ==
    pc = "split" =>
        /\ \A t \in 0..MaxT :
              /\ (Holds(args.r, t) /\ ~InSplitter(args.start, args.end, t))
                    => \E m \in 1..Len(ret) : Holds(ret[m], t)
              /\ InSplitter(args.start, args.end, t)
                    => \A m \in 1..Len(ret) : ~Holds(ret[m], t)
        /\ (/\ Start(args.r) < args.start
            /\ args.start <= args.end
            /\ args.end < End(args.r))
              => ret = <<Range(Start(args.r), args.start),
                         Range(args.end, End(args.r))>>

C2_Witness ==
    /\ pc = "split"
    /\ Start(args.r) < args.start
    /\ args.start < args.end
    /\ args.end < End(args.r)
    /\ ret = <<Range(Start(args.r), args.start), Range(args.end, End(args.r))>>

\* C4 as stated: for every r, zero-length ones included, and every splitter
\* with start <= r.Start() and end >= r.End(), r.split(start, end) is empty.
\* Refuted by a zero-length r that the splitter touches at an endpoint.
C4_Original ==
    (pc = "split" /\ args.start <= Start(args.r) /\ args.end >= End(args.r))
        => ret = <<>>

\* C4 amended: for every r and every splitter with start <= r.Start() and
\* end >= r.End() that also has start < r.End() and end > r.Start() (which is
\* so whenever r has positive length), r.split(start, end) is empty; a
\* zero-length r whose instant is an endpoint of the splitter is returned
\* unchanged.
C4_SplitFullConsumption ==
    (pc = "split" /\ args.start <= Start(args.r) /\ args.end >= End(args.r))
        => IF args.start < End(args.r) /\ args.end > Start(args.r)
              THEN ret = <<>>
              ELSE ret = <<args.r>>

C4_Witness ==
    /\ pc = "split"
    /\ args.start <= Start(args.r)
    /\ args.end >= End(args.r)
    /\ Start(args.r) < End(args.r)
    /\ ret = <<>>

\* C8: r.After(t) is [t, r.End()] when t is inside r, r itself when t is before
\* r.Start(), and the zero-duration [r.End(), r.End()] when t is after r.End();
\* in every case the result has end >= start and the end of r.
C8_AfterClip ==
    pc = "after" =>
        LET r == args.r
            t == args.start
        IN  /\ (Start(r) <= t /\ t <= End(r)) => ret[1] = Range(t, End(r))
            /\ t < Start(r) => ret[1] = r
            /\ t > End(r) => ret[1] = Range(End(r), End(r))
            /\ End(ret[1]) >= Start(ret[1])
            /\ End(ret[1]) = End(r)

C8_Witness ==
    /\ pc = "after"
    /\ Start(args.r) < args.start
    /\ args.start < End(args.r)
    /\ ret = <<Range(args.start, End(args.r))>>

-----------------------------------------------------------------------------
(* Property of nextWorkDay, under SpecWorkDay *)

\* 18:00 of calendar day d is strictly after the reference and d is a
\* Monday-to-Friday date
WorkDate(d, reference) ==
    /\ d % 7 # Sunday
    /\ d % 7 # Saturday
    /\ d * Day + WorkEndHour * 60 > reference

\* C6: nextWorkDay(reference) is exactly [10:00, 18:00] on the earliest
\* Monday-to-Friday date whose 18:00 is strictly after the reference; it never
\* falls on a Saturday or Sunday, Friday 18:00 gives Monday 10:00, and Tuesday
\* 09:00 gives Tuesday 10:00-18:00.
C6_NextWorkDay ==
    pc = "workday" =>
        LET days == (now \div Day)..(now \div Day + 7)
            d == CHOOSE x \in days :
                    /\ WorkDate(x, now)
                    /\ \A y \in days : WorkDate(y, now) => x <= y
        IN  /\ ret = <<Range(d * Day + WorkStartHour * 60,
                             d * Day + WorkEndHour * 60)>>
            /\ Weekday(Start(ret[1])) \notin {Saturday, Sunday}
            /\ now = 5 * Day + 18 * 60 => Start(ret[1]) = 8 * Day + 10 * 60
            /\ now = 2 * Day + 9 * 60
                  => ret[1] = Range(2 * Day + 10 * 60, 2 * Day + 18 * 60)

\* the reference is Friday 18:00 and the result starts on Monday 10:00
C6_Witness ==
    /\ pc = "workday"
    /\ now = 5 * Day + 18 * 60
    /\ ret = <<Range(8 * Day + 10 * 60, 8 * Day + 18 * 60)>>

-----------------------------------------------------------------------------
(* Properties of the event fold, under SpecFold (C5: under SpecSplitFold) *)

\* the condition under which split is documented to leave r alone
NoOverlap(r, start, end) == start >= End(r) \/ end <= Start(r)

\* the interval of a timed event, as a Range
EventRange(event) == Range(event.start, event.end)

\* the instants some range of the list holds
Coverage(list) == {t \in 0..MaxT : \E m \in 1..Len(list) : Holds(list[m], t)}

\* C5, on the function: a call with start >= r.End() or end <= r.Start()
\* returns exactly [r]
C5_CallNoOp ==
    (pc = "split" /\ NoOverlap(args.r, args.start, args.end))
        => ret = <<args.r>>

\* C5, on the fold: a step that processes a timed event for which every range
\* of the free list meets that condition leaves the free list unchanged
C5_FoldNoOp ==
    (/\ pc = "fold"
     /\ k < Len(busyEvents)
     /\ k' = k + 1
     /\ busyEvents[k + 1].kind = "timed"
     /\ \A m \in 1..Len(freeRanges) :
           NoOverlap(freeRanges[m], busyEvents[k + 1].start, busyEvents[k + 1].end))
        => freeRanges' = freeRanges

\* C5: if start >= r.End() or end <= r.Start() then r.split(start, end) is
\* exactly [r]; so processing a busy event that meets this condition for every
\* range of the free list leaves the list unchanged (same ranges, order, length).
C5_DisjointEventNoOp == []C5_CallNoOp /\ [][C5_FoldNoOp]_vars

\* the range [0, MaxT] can only be a seed: an event starting at its end has
\* been processed and the range is still there
C5_Witness ==
    /\ pc = "fold"
    /\ k = 1
    /\ busyEvents[1] = TimedEvent(MaxT, MaxT)
    /\ freeRanges = <<Range(0, MaxT)>>

\* C9, the invariant: no range of the free list shares an instant with a timed
\* event the fold has already processed
C9_NoProcessedEventOverlaps ==
    \A j \in 1..k :
        busyEvents[j].kind = "timed"
            => \A m \in 1..Len(freeRanges) :
                  ~Overlap(freeRanges[m], EventRange(busyEvents[j]))

\* C9, the step: the instants the free list covers only ever shrink
C9_CoverageShrinks == Coverage(freeRanges') \subseteq Coverage(freeRanges)

\* C9: after each step of the fold no range of the free list overlaps the event
\* just subtracted, and this stays so for that event through every later step;
\* the coverage of the free list only ever shrinks.
C9_FoldRemovesEvents ==
    []C9_NoProcessedEventOverlaps /\ [][C9_CoverageShrinks]_vars

\* two events have been processed, the first one cut a range in two and
\* neither piece overlaps it
C9_Witness ==
    /\ pc = "fold"
    /\ k = 2
    /\ busyEvents[1].kind = "timed"
    /\ busyEvents[1].start < busyEvents[1].end
    /\ Len(freeRanges) = 2
    /\ End(freeRanges[1]) = busyEvents[1].start
    /\ Start(freeRanges[2]) = busyEvents[1].end

\* the events of positions k+1 .. Len(busyEvents), in the order p gives them
Reordered(p) == [j \in 1..(Len(busyEvents) - k) |-> busyEvents[k + p[j]]]

\* the orderings of n events, for every n up to MaxFold
Permutations ==
    [n \in 0..MaxFold |->
        {p \in [1..n -> 1..n] : \A x, y \in 1..n : p[x] = p[y] => x = y}]

\* C10: the result of the fold does not depend on the order of the events: from
\* any free list, folding the events that remain (each timed with start <= end,
\* or all-day) in any order gives the list that folding them in the fetched
\* order gives; and processing an already processed event again changes nothing.
C10_OrderIndependent ==
    (pc = "fold" /\ \A j \in 1..Len(busyEvents) : busyEvents[j].kind # "malformed")
        => /\ \A p \in Permutations[Len(busyEvents) - k] :
                 foldAll(freeRanges, Reordered(p))
                    = foldAll(freeRanges, SubSeq(busyEvents, k + 1, Len(busyEvents)))
           /\ \A j \in 1..k : foldEvent(freeRanges, busyEvents[j]) = freeRanges

\* two different timed events have been folded over a single seed range, which
\* they cut into several pieces
C10_Witness ==
    /\ pc = "fold"
    /\ k = 2
    /\ Len(busyEvents) = 2
    /\ busyEvents[1].kind = "timed"
    /\ busyEvents[2].kind = "timed"
    /\ busyEvents[1] # busyEvents[2]
    /\ Len(freeRanges) >= 2

-----------------------------------------------------------------------------
(* Properties of the whole run, under Spec (C7: under SpecMainFold) *)

\* the positions of the ranges the pruning has to keep
Kept(list) == {j \in 1..Len(list) : Duration(list[j]) >= MinFreeMinutes}

\* the m-th smallest element of a set of positions
Nth(S, m) == CHOOSE j \in S : Cardinality({x \in S : x <= j}) = m

\* C7, the step
C7_PruneStep ==
    (pc = "fold" /\ pc' = "done") =>
        /\ Len(freeRanges') = Cardinality(Kept(freeRanges))
        /\ \A m \in 1..Len(freeRanges') :
              freeRanges'[m] = freeRanges[Nth(Kept(freeRanges), m)]

\* C7: the pruning keeps exactly the ranges of at least 30 minutes, in their
\* order, each unaltered: one of exactly 30 minutes stays, one of 29 minutes
\* or of zero length goes.
C7_PruneKeepsLongRanges == [][C7_PruneStep]_vars

\* a run of main has ended whose now is 17:31 of a Monday-to-Friday date, so
\* the first seed had 29 minutes and is gone, and a range of exactly 30 minutes
\* is in the pruned list
C7_Witness ==
    /\ pc = "done"
    /\ now % Day = 17 * 60 + 31
    /\ Weekday(now) \notin {Saturday, Sunday}
    /\ \A m \in 1..Len(freeRanges) : Start(freeRanges[m]) # now
    /\ \E m \in 1..Len(freeRanges) : Duration(freeRanges[m]) = MinFreeMinutes

\* the list is in order of start time
Chronological(list) ==
    \A m, n \in 1..Len(list) : m < n => Start(list[m]) <= Start(list[n])

\* C3: the free list the run finally produces is, for every now and every set
\* of busy events, pairwise non-overlapping and in order of start time.
\* Refuted: when now + 1 day or now + 2 days falls on a weekend, nextWorkDay
\* gives the same Monday for several seeds.
C3_FinalListDisjointOrdered ==
    pc = "done" => PairwiseDisjoint(freeRanges) /\ Chronological(freeRanges)

====
